---- MODULE Spec2Model ----
(***************************************************************************)
(* Model of JohnstonRDSFINAL.py: the binocular projector                   *)
(* (project_to_screen), the rejection-sampling dot-field generator         *)
(* (generate_rds), the calls the experiment script makes to it, and the    *)
(* clean-exit handler (terminate_experiment).                              *)
(*                                                                         *)
(* Numbers.  The program computes in binary floating point (Python float / *)
(* numpy float64): every +, -, *, / and sqrt is the exact result rounded   *)
(* to the nearest representable value, ties to even.  The model keeps that *)
(* arithmetic and shrinks the format: a value is an integer count of       *)
(* 1/One cm, representable when it is m * 2^e with |m| < 2^Prec, e >= 0.   *)
(* Division by zero yields the IEEE results inf / nan, as numpy does.      *)
(***************************************************************************)
EXTENDS Integers, Sequences, FiniteSets, TLC

\* ------------------------------------------------------------ bounds
Prec     == 5      \* significand bits of the modelled float format
FracBits == 3      \* the grid is 2^-FracBits cm
MaxN     == 2      \* largest dot count n a call is given
RngPeriod == 2     \* the random source's state is followed modulo this
MaxTrials == 2     \* trials in the session (the script runs 5 conditions x 3)
MaxCounted == 3    \* entries into terminate_experiment are counted up to this

One  == 2 ^ FracBits          \* 1.0
Half == One \div 2            \* 0.5  (the clamp margin of lines 130 and 136)

\* ------------------------------------------------------------ floats
PosInf == 2 ^ 28
NegInf == 0 - PosInf
NaN    == PosInf + 1

IsFinite(v) == v > NegInf /\ v < PosInf

Abs(v) == IF v < 0 THEN 0 - v ELSE v

Sign(v) == IF v < 0 THEN 0 - 1 ELSE 1

\* The least e >= 0 with a / d < 2^(Prec+e): the exponent of the quantum.
RECURSIVE ExpOf(_, _, _)
ExpOf(a, d, e) == IF a < (2 ^ (Prec + e)) * d THEN e ELSE ExpOf(a, d, e + 1)

\* a / d rounded to the nearest integer, ties to the even one (a >= 0, d > 0).
RoundHalfEven(a, d) ==
    LET q == a \div d
        r == a % d
    IN  IF 2 * r < d THEN q
        ELSE IF 2 * r > d THEN q + 1
        ELSE IF q % 2 = 0 THEN q ELSE q + 1

\* The rational p / q (q > 0), in grid units, rounded to the float format.
Round(p, q) ==
    LET a == Abs(p)
        e == ExpOf(a, q, 0)
    IN  Sign(p) * RoundHalfEven(a, q * (2 ^ e)) * (2 ^ e)

Fadd(a, b) == Round(a + b, 1)

Fsub(a, b) == Round(a - b, 1)

Fmul(a, b) == Round(a * b, One)

\* numpy division: x/0 is +-inf for x # 0 and nan for x = 0, never an exception.
Fdiv(a, b) ==
    IF b = 0 THEN (IF a = 0 THEN NaN ELSE IF a > 0 THEN PosInf ELSE NegInf)
    ELSE Round(Sign(b) * a * One, Abs(b))

Fmax(a, b) == IF a >= b THEN a ELSE b

Fmin(a, b) == IF a <= b THEN a ELSE b

\* ------------------------------------------------------------ projector
\* depth_from_eye = np.maximum(distance_cm - z_cm, 0.5)                (line 130)
depth_from_eye(z_cm, distance_cm) == Fmax(Fsub(distance_cm, z_cm), Half)

\* safe_z = np.clip(z_cm, None, distance_cm - 0.5)                     (line 136)
safe_z(z_cm, distance_cm) == Fmin(z_cm, Fsub(distance_cm, Half))

\* (distance_cm**2) - (safe_z**2), the divisor of the closed form      (line 137)
formula_den(z_cm, distance_cm) ==
    Fsub(Fmul(distance_cm, distance_cm),
         Fmul(safe_z(z_cm, distance_cm), safe_z(z_cm, distance_cm)))

project_to_screen(x_cm, z_cm, distance_cm, iod_cm) ==
    LET half     == Fdiv(iod_cm, 2 * One)
        scale    == Fdiv(distance_cm, depth_from_eye(z_cm, distance_cm))
        xL       == Fadd(0 - half, Fmul(scale, Fadd(x_cm, half)))
        xR       == Fadd(half, Fmul(scale, Fsub(x_cm, half)))
        disp_cm  == Fsub(xR, xL)
        disp_rad == Fdiv(disp_cm, distance_cm)
        disp_formula == Fdiv(Fmul(iod_cm, safe_z(z_cm, distance_cm)),
                             formula_den(z_cm, distance_cm))
    IN  [xL |-> xL, xR |-> xR, disp_cm |-> disp_cm,
         disp_rad |-> disp_rad, disp_formula |-> disp_formula]

\* np.sqrt of v >= 0: the square root, correctly rounded.
Fsqrt(v) ==
    LET N  == v * One
        s  == CHOOSE r \in 0..N : r * r <= N /\ (r + 1) * (r + 1) > N
        e  == ExpOf(s, 1, 0)
        Q  == 2 ^ e
        lo == s \div Q
        t  == (2 * lo + 1) * Q
    IN  IF 4 * N < t * t THEN lo * Q
        ELSE IF 4 * N > t * t THEN (lo + 1) * Q
        ELSE IF lo % 2 = 0 THEN lo * Q ELSE (lo + 1) * Q

\* ------------------------------------------------------------ inputs
\* Candidate points (x, y) a batch may draw, in grid units: (0,0), (7,0) and
\* (-7,12) lie inside the footprint ellipse of ValidArgs; (28,8) and (0,24)
\* lie outside it and inside the aperture disk.  (0,24) is the point that
\* passes the bounds check whenever any flat point can (x = 0, z = 0).
Points == { <<0, 0>>, <<7, 0>>, <<28, 8>>, <<0 - 7, 12>>, <<0, 24>> }

\* r = aperture*sqrt(U), (x, y) = (r cos theta, r sin theta): a point of the
\* disk of radius |aperture| (lines 149-151).
Candidates(aperture) ==
    { p \in Points : p[1] * p[1] + p[2] * p[2] <= aperture * aperture }

ValidArgs ==
    [a : {3 * One}, b : {0, 2 * One}, dist : {8 * One}, iod : {6 * One + Half},
     n : 1..MaxN, y_semi : {2 * One}, aperture : {4 * One},
     width : {One, 10 * One}]

\* Exactly one of a, y_semi, aperture, n, dist, iod is <= 0.
InvalidArgs ==
    LET base == [a |-> 3 * One, b |-> 2 * One, dist |-> 8 * One,
                 iod |-> 6 * One + Half, n |-> 1, y_semi |-> 2 * One,
                 aperture |-> 4 * One, width |-> 10 * One]
    IN  { [base EXCEPT !.a = 0], [base EXCEPT !.a = 0 - One],
          [base EXCEPT !.y_semi = 0],
          [base EXCEPT !.aperture = 0], [base EXCEPT !.dist = 0],
          [base EXCEPT !.iod = 0], [base EXCEPT !.n = 0],
          [base EXCEPT !.n = 0 - 1] }

\* What the participant dialog may give for haploscope_offset_cm (line 59).
Offsets == {0, One}

\* Inputs of the projector taken alone: x on and off the half-grid, z from
\* -2D' to 2D' in steps of 0.5 (z = 0, 0 < z < D, z = -D and z >= D all occur).
ProjX   == {0 - 3 * One, 0, 7, One + 3, 3 * One}
ProjZ   == { k * Half : k \in (0 - 16)..16 }
ProjD   == {4 * One, 8 * One}
ProjIod == {4 * One, 6 * One + Half}

NoArgs == [a |-> 0, b |-> 0, dist |-> 0, iod |-> 0, n |-> 0, y_semi |-> 0,
           aperture |-> 0, width |-> 0]

NoInput == [x |-> 0, z |-> 0, D |-> 0, iod |-> 0]

NoOutput == [xL |-> 0, xR |-> 0, disp_cm |-> 0, disp_rad |-> 0, disp_formula |-> 0]

VARIABLES
    haplo_offset_cm,   \* session calibration, module global (line 59)
    gpc,               \* generate_rds: "idle", "loop", "returned", "raised"
    caller,            \* which call site is running generate_rds
    args,              \* the arguments of the running call
    needed,            \* local `needed` (lines 146, 170)
    all,               \* np.concatenate of the chunks appended so far: the
                       \* six *_all lists, one record per dot
    appended,          \* whether the *_all lists hold at least one chunk
    dropped,           \* whether `keep` was False for a candidate of this call
    rng,               \* state of the process-wide random source, mod RngPeriod
    out,               \* the arrays returned (one record per index)
    ppc,               \* projector taken alone: "off", "called", "done"
    pin,               \* its arguments
    pout,              \* its result
    epc,               \* the script's position (see Phases), "off" when unused
    trial,             \* trials completed
    experiment_terminated,   \* _experiment_terminated["value"] (line 90)
    csv_saves,         \* completed this_exp.saveAsWideText calls
    pickle_saves,      \* completed this_exp.saveAsPickle calls
    handle,            \* per window: "open", or "none" (winHandle is None)
    closes,            \* per window: completed w.close() calls
    quits,             \* core.quit() calls made
    invoked            \* entries into terminate_experiment, counted to MaxCounted

gvars == <<haplo_offset_cm, gpc, caller, args, needed, all, appended, dropped,
           rng, out>>
pvars == <<ppc, pin, pout>>
evars == <<epc, trial, experiment_terminated, csv_saves, pickle_saves, handle,
           closes, quits, invoked>>
vars == <<gvars, pvars, evars>>

\* ------------------------------------------------------------ generate_rds
\* inside = ((x / a) ** 2 + (y / y_semi) ** 2) <= 1.0                  (line 154)
\* With a = 0 or y_semi = 0 the quotient is inf or nan, and so is the sum:
\* the comparison is False.
inside(x, y, a, y_semi) ==
    IF a = 0 \/ y_semi = 0 THEN FALSE
    ELSE Fadd(Fmul(Fdiv(x, a), Fdiv(x, a)),
              Fmul(Fdiv(y, y_semi), Fdiv(y, y_semi))) <= One

\* z = 0 outside; inside, b * sqrt(clip(1 - (x/a)**2, 0, None))  (lines 155-158)
surface_z(x, y, g) ==
    IF inside(x, y, g.a, g.y_semi)
    THEN Fmul(g.b, Fsqrt(Fmax(Fsub(One, Fmul(Fdiv(x, g.a), Fdiv(x, g.a))), 0)))
    ELSE 0

\* The haploscope shift generate_rds applies: the module global, whatever the
\* call site (lines 162-163; the function takes no offset parameter).
applied_offset(c) == haplo_offset_cm

\* One candidate through lines 153-163: projection, then the offset shift.
ShiftedDot(p, g, offset) ==
    LET pr == project_to_screen(p[1], surface_z(p[1], p[2], g), g.dist, g.iod)
    IN  [xL |-> Fsub(pr.xL, offset),
         xR |-> Fadd(pr.xR, offset),
         y |-> p[2], dcm |-> pr.disp_cm, dang |-> pr.disp_rad,
         dfor |-> pr.disp_formula]

\* ShiftedDot tabulated once over the inputs of the model (f @@ <<>> is f,
\* held as an explicit table).
DotTable ==
    [t \in (ValidArgs \cup InvalidArgs) \X Offsets \X Points |->
        ShiftedDot(t[3], t[1], t[2])] @@ <<>>

Dot(p, g, c) == DotTable[<<g, applied_offset(c), p>>]

half_width(g) == Fdiv(g.width, 2 * One)

keep_left_only(d, g) == Abs(d.xL) <= half_width(g)

\* keep = (np.abs(xL) <= half_width) & (np.abs(xR) <= half_width)      (line 166)
keep(d, g) == Abs(d.xL) <= half_width(g) /\ Abs(d.xR) <= half_width(g)

\* batch = int(np.ceil(needed * 1.6)); in doubles this is the exact ceiling
\* of 8*needed/5 for every needed up to 200000.                        (line 148)
BatchSize(k) == (16 * k + 9) \div 10

\* xL[keep], ... : the kept candidates, in the order drawn    (lines 167-168)
RECURSIVE Kept(_, _, _)
Kept(pts, g, c) ==
    IF pts = <<>> THEN <<>>
    ELSE LET d == Dot(Head(pts), g, c)
         IN  (IF keep(d, g) THEN <<d>> ELSE <<>>) \o Kept(Tail(pts), g, c)

untruncated(chunks, n) == chunks

\* np.concatenate(...)[:n]                                    (lines 172-173)
truncated(chunks, n) == SubSeq(chunks, 1, n)

\* Lines 140-146: the body starts; no argument is checked.
Enter(g, c) ==
    /\ gpc = "idle"
    /\ gpc' = "loop"
    /\ caller' = c
    /\ args' = g
    /\ needed' = g.n
    /\ all' = <<>>
    /\ appended' = FALSE
    /\ dropped' = FALSE
    /\ out' = <<>>
    /\ UNCHANGED <<haplo_offset_cm, rng, pvars, evars>>

\* A call with arbitrary arguments (the TEST MODE and stimulus call sites,
\* lines 198 and 256, pass b > 0).
Call == \E g \in ValidArgs \cup InvalidArgs, c \in {"test", "stimulus"} : Enter(g, c)

\* The fusion-prime call site: b = 0.0, the other arguments the session's
\* (lines 235-239).
CallPrime == \E g \in { v \in ValidArgs : v.b = 0 } : Enter(g, "prime")

\* One iteration of `while needed > 0` (lines 147-170).
Batch ==
    /\ gpc = "loop"
    /\ needed > 0
    /\ \E pts \in [1..BatchSize(needed) -> Candidates(args.aperture)] :
          LET k == Kept(pts, args, caller)
          IN  /\ all' = all \o k
              /\ dropped' = (dropped \/ Len(k) < Len(pts))
    /\ appended' = TRUE
    /\ needed' = args.n - Len(all')
    /\ rng' = (rng + 1) % RngPeriod
    /\ UNCHANGED <<haplo_offset_cm, gpc, caller, args, out, pvars, evars>>

\* Lines 172-174: concatenate, truncate to n, return.  np.concatenate of an
\* empty list raises ValueError.
Return ==
    /\ gpc = "loop"
    /\ needed <= 0
    /\ IF appended
       THEN gpc' = "returned" /\ out' = truncated(all, args.n)
       ELSE gpc' = "raised" /\ out' = <<>>
    /\ UNCHANGED <<haplo_offset_cm, caller, args, needed, all, appended,
                   dropped, rng, pvars, evars>>

\* The caller takes the arrays (lines 198, 235, 256) and the script goes on
\* to its next call.
Consume ==
    /\ gpc = "returned"
    /\ gpc' = "idle"
    /\ caller' = "test"
    /\ args' = NoArgs
    /\ needed' = 0
    /\ all' = <<>>
    /\ appended' = FALSE
    /\ dropped' = FALSE
    /\ out' = <<>>
    /\ UNCHANGED <<haplo_offset_cm, rng, pvars, evars>>

GenOff ==
    /\ gpc = "idle"
    /\ caller = "test"
    /\ args = NoArgs
    /\ needed = 0
    /\ all = <<>>
    /\ appended = FALSE
    /\ dropped = FALSE
    /\ rng = 0
    /\ out = <<>>

ProjOff == ppc = "off" /\ pin = NoInput /\ pout = NoOutput

ExitOff ==
    /\ epc = "off"
    /\ trial = 0
    /\ experiment_terminated = FALSE
    /\ csv_saves = 0
    /\ pickle_saves = 0
    /\ handle = [w \in {"left", "right"} |-> "open"]
    /\ closes = [w \in {"left", "right"} |-> 0]
    /\ quits = 0
    /\ invoked = 0

Init == haplo_offset_cm \in Offsets /\ GenOff /\ ProjOff /\ ExitOff

Next == Call \/ CallPrime \/ Batch \/ Return \/ Consume

Spec == Init /\ [][Next]_vars

\* The same calls with n = 1, for the properties of whole runs.
CallOne ==
    \E g \in { v \in ValidArgs : v.n = 1 }, c \in {"test", "stimulus"} : Enter(g, c)

FairNext == CallOne \/ Batch \/ Return \/ Consume

\* The interpreter runs generate_rds for as long as it can take a step.
FairSpec == Init /\ [][FairNext]_vars /\ WF_vars(FairNext)

\* ------------------------------------------------------------ projector alone
ProjInit ==
    /\ haplo_offset_cm = 0
    /\ GenOff
    /\ ExitOff
    /\ ppc = "called"
    /\ pin \in [x : ProjX, z : ProjZ, D : ProjD, iod : ProjIod]
    /\ pout = NoOutput

Project ==
    /\ ppc = "called"
    /\ ppc' = "done"
    /\ pout' = project_to_screen(pin.x, pin.z, pin.D, pin.iod)
    /\ UNCHANGED <<pin, gvars, evars>>

SpecProject == ProjInit /\ [][Project]_vars

\* ------------------------------------------------------------ clean exit
Windows == {"left", "right"}

\* The presentation loops that poll the escape key, in script order:
\* lines 205-211, 214-218, 246-251, 268-280, 284-287, 292-300.
Loops == <<"test_loop", "wait_key", "prime", "stimulus", "post_fix", "response">>

LoopOf(ph) == CHOOSE i \in 1..Len(Loops) : Loops[i] = ph

never_terminated == FALSE

\* if _experiment_terminated["value"]: return                   (lines 92-93)
already_terminated == experiment_terminated

Bump(k) == IF k < MaxCounted THEN k + 1 ELSE k

\* terminate_experiment() entered at a place from which the script goes on
\* at `resume` when the call returns.  this_exp.save*, w.close() and
\* core.quit() are library calls: a save or a close may raise (and is then
\* swallowed, lines 98 and 104); core.quit() ends the process, and the case
\* in which it hands control back is kept as well, so that a later entry is
\* followed through the body.
terminate_experiment(resume) ==
    /\ invoked' = Bump(invoked)
    /\ IF already_terminated
       THEN /\ epc' = resume
            /\ UNCHANGED <<experiment_terminated, csv_saves, pickle_saves,
                           handle, closes, quits>>
       ELSE /\ experiment_terminated' = TRUE
            /\ \E saved \in {"both", "csv_only", "neither"} :
                  /\ csv_saves' = IF saved = "neither" THEN csv_saves
                                  ELSE csv_saves + 1
                  /\ pickle_saves' = IF saved = "both" THEN pickle_saves + 1
                                     ELSE pickle_saves
            /\ \E raises \in SUBSET Windows :
                  /\ handle' = [w \in Windows |->
                                  IF handle[w] = "open" /\ w \notin raises
                                  THEN "none" ELSE handle[w]]
                  /\ closes' = [w \in Windows |->
                                  IF handle[w] = "open" /\ w \notin raises
                                  THEN closes[w] + 1 ELSE closes[w]]
            /\ quits' = quits + 1
            /\ \E quit \in {"exits", "returns"} :
                  epc' = IF quit = "exits" THEN "exited" ELSE resume
    /\ UNCHANGED <<trial, gvars, pvars>>

\* A polling loop ends without the escape key: the script moves on.
Advance ==
    /\ epc \in {Loops[i] : i \in 1..Len(Loops)}
    /\ IF epc = "response"
       THEN /\ trial' = trial + 1
            /\ epc' = IF trial + 1 < MaxTrials THEN "prime" ELSE "cleanup"
       ELSE /\ trial' = trial
            /\ epc' = Loops[LoopOf(epc) + 1]
    /\ UNCHANGED <<experiment_terminated, csv_saves, pickle_saves, handle,
                   closes, quits, invoked, gvars, pvars>>

\* if default_kb.getKeys(["escape"], ...): terminate_experiment()
\* (lines 211, 218, 251, 280, 287, 296)
Escape ==
    /\ epc \in {Loops[i] : i \in 1..Len(Loops)}
    /\ terminate_experiment(epc)

\* The final call (line 315), after which the script ends.
Cleanup ==
    /\ epc = "cleanup"
    /\ terminate_experiment("exited")

ExitInit ==
    /\ haplo_offset_cm = 0
    /\ GenOff
    /\ ProjOff
    /\ epc = "test_loop"
    /\ trial = 0
    /\ experiment_terminated = FALSE
    /\ csv_saves = 0
    /\ pickle_saves = 0
    /\ handle = [w \in Windows |-> "open"]
    /\ closes = [w \in Windows |-> 0]
    /\ quits = 0
    /\ invoked = 0

ExitNext == Advance \/ Escape \/ Cleanup

SpecExit == ExitInit /\ [][ExitNext]_vars

\* ------------------------------------------------------------ properties
Returned == gpc = "returned"

Invalid(g) ==
    g.a <= 0 \/ g.y_semi <= 0 \/ g.aperture <= 0 \/ g.n <= 0 \/ g.dist <= 0
    \/ g.iod <= 0

\* No point the aperture offers passes the both-eyes bounds check.  In the
\* model this holds exactly for b = 0 with width/2 < |offset|, where it holds
\* of every point of the disk: z = 0 everywhere and xR - xL = 2*offset > width.
NoPointPasses ==
    /\ gpc = "loop"
    /\ args.n >= 1
    /\ \A p \in Candidates(args.aperture) : ~keep(Dot(p, args, caller), args)

\* C1: a call of generate_rds with n >= 1 that returns, returns arrays of
\* length exactly n, whatever the batches drew, kept or rejected.
C1_ExactLength == (Returned /\ args.n >= 1) => Len(out) = args.n

\* A call returned after its batches kept more than n dots and rejected some.
C1_Witness == Returned /\ args.n >= 1 /\ Len(all) > args.n /\ dropped

\* C2: every returned dot is inside both eyes' bounds after the offset shift:
\* |xL[i]| <= width/2 and |xR[i]| <= width/2.
C2_BothEyes ==
    Returned =>
        \A i \in 1..Len(out) :
            Abs(out[i].xL) <= half_width(args) /\ Abs(out[i].xR) <= half_width(args)

\* A call under a nonzero session offset returned dots after rejecting others.
C2_Witness == Returned /\ dropped /\ Len(out) >= 1 /\ haplo_offset_cm # 0

\* C3: for z = 0, project_to_screen(x, 0, D, iod) returns (x, x, 0, 0, 0).
C3_ZeroDepthIdentity ==
    (ppc = "done" /\ pin.z = 0) =>
        pout = [xL |-> pin.x, xR |-> pin.x, disp_cm |-> 0, disp_rad |-> 0,
                disp_formula |-> 0]

\* C4: for 0 < z < D the linear disparity xRight - xLeft is strictly positive,
\* and it does not decrease as z grows (D and iod fixed).
C4_PositiveIncreasing ==
    (ppc = "done" /\ 0 < pin.z /\ pin.z < pin.D) =>
        /\ pout.disp_cm > 0
        /\ \A z2 \in ProjZ :
              (pin.z < z2 /\ z2 < pin.D) =>
                  project_to_screen(pin.x, z2, pin.D, pin.iod).disp_cm
                      >= pout.disp_cm

\* C5: for any finite z < D (D > 0, iod > 0) neither divisor of
\* project_to_screen is zero, and no result is inf or nan.
C5_Total ==
    (ppc = "done" /\ pin.z < pin.D) =>
        /\ depth_from_eye(pin.z, pin.D) # 0
        /\ formula_den(pin.z, pin.D) # 0
        /\ IsFinite(pout.disp_rad)
        /\ IsFinite(pout.disp_formula)

\* C6: when no point of the aperture can pass the bounds check, generate_rds
\* ends by raising an error instead of issuing batches forever.
C6_RaisesWhenUnsatisfiable == NoPointPasses ~> (gpc = "raised")

\* C7: a call with a, y_semi, aperture, n, dist or iod <= 0 fails before any
\* candidate is sampled and never returns a dot field.
C7_InvalidRejected ==
    (gpc # "idle" /\ Invalid(args)) => (~appended /\ ~Returned)

\* C8: with b = 0 and haploscope offset 0 every returned dot has xL = xR and
\* zero disparity values.
C8_ZeroDisparityField ==
    (Returned /\ args.b = 0 /\ haplo_offset_cm = 0) =>
        \A i \in 1..Len(out) :
            /\ out[i].xL = out[i].xR
            /\ out[i].dcm = 0 /\ out[i].dang = 0 /\ out[i].dfor = 0

\* C9: the fusion-prime field is generated with the offset forced to 0
\* whatever the session calibration, and every dot of it has xLeft = xRight.
C9_PrimeOffsetForcedZero ==
    (caller = "prime" /\ gpc \in {"loop", "returned"}) =>
        /\ applied_offset(caller) = 0
        /\ \A i \in 1..Len(all) : all[i].xL = all[i].xR

\* C10: over any sequence of invocations of terminate_experiment the data is
\* saved, each window closed and core.quit() called at most once, and once
\* the flag is set it stays set and nothing is saved, closed or quit again.
C10_TerminateOnce ==
    /\ [](/\ csv_saves <= 1 /\ pickle_saves <= 1 /\ quits <= 1
          /\ \A w \in Windows : closes[w] <= 1)
    /\ [][experiment_terminated =>
              /\ experiment_terminated'
              /\ UNCHANGED <<csv_saves, pickle_saves, closes, handle, quits>>]_vars

\* terminate_experiment was entered again after an entry that saved and
\* closed both windows.
C10_Witness ==
    /\ invoked >= 2
    /\ experiment_terminated
    /\ csv_saves = 1 /\ pickle_saves = 1
    /\ \A w \in Windows : closes[w] = 1
====
